---- MODULE Spec2Model ----
(***************************************************************************)
(* Model of the search-agent backend: the shared OpenAISearchAgent         *)
(* (backend/app/agents/openai_agent.py), the HTTP handlers that drive it   *)
(* (backend/app/api/routes.py, served by backend/app/main.py) and the      *)
(* standalone app (backend/websearch_app.py).  A process runs one of the   *)
(* two apps.  The remote model gateway (Runner.run_sync) is an oracle:     *)
(* every call either returns some text or raises some exception.           *)
(***************************************************************************)
EXTENDS Integers, Sequences, FiniteSets, TLC

VARIABLES
    config_size,   \* search_agent.search_config.search_context_size
    tool_size,     \* search_agent.web_search_tool.search_context_size
    pc,            \* pc[p]: where request p stands in its handler / agent method
    loc,           \* loc[p]: the locals of the frames request p has open
    inflight,      \* inflight[p]: <<call>> while a Runner.run_sync call of p runs
    glog,          \* glog[p]: the gateway calls request p has completed, in order
    response,      \* response[p]: <<http response>> once the handler has returned
    svc            \* the process: which app it runs, its environment, its startup

vars == <<config_size, tool_size, pc, loc, inflight, glog, response, svc>>

(***************************************************************************)
(* Bounds of the model.                                                    *)
(***************************************************************************)
MaxQueries == 3    \* longest queries list of a /search/multi-query body
MaxLines == 3      \* most lines in a query-generation output

Procs == {1, 2}    \* request slots

None == "None"
Tiers == {"low", "medium", "high"}
Depths == {"basic", "detailed", "comprehensive"}
Queries == {"q1", "q2"}
Answers == {"a1", "a2"}
Exceptions ==
    { [type |-> "RateLimitError", msg |-> "rate limit exceeded"],
      [type |-> "APITimeoutError", msg |-> ""] }

\* sequences over S of length at most n
RECURSIVE SeqsUpTo(_, _)
SeqsUpTo(S, n) ==
    IF n = 0 THEN {<<>>}
    ELSE LET shorter == SeqsUpTo(S, n - 1)
         IN  shorter \cup {Append(s, x) : s \in {t \in shorter : Len(t) = n - 1}, x \in S}

(***************************************************************************)
(* OpenAISearchAgent.__init__                                              *)
(***************************************************************************)
\* SearchConfig.search_context_size default
DefaultContextSize == "medium"

\* self.agent: the shared WebSearchAssistant, built with tools=[self.web_search_tool]
SharedAgent == [name |-> "WebSearchAssistant", tools |-> {"WebSearchTool"}]

\* the tool-less agents built per call
ChatAssistant == [name |-> "ChatAssistant", tools |-> {}]
QueryGenerator == [name |-> "QueryGenerator", tools |-> {}]

(***************************************************************************)
(* Frames.                                                                 *)
(***************************************************************************)
InitLoc ==
    [ op |-> "none",                 \* the route serving the request
      body |-> [none |-> None],      \* the request body
      \* frame of OpenAISearchAgent.search
      s_query |-> None, s_context_size |-> None, original_context_size |-> None,
      s_ret |-> "none", s_result |-> <<>>,
      \* frame of chat
      message |-> None, conversation_history |-> <<>>, enable_search |-> TRUE,
      \* frames of multi_query_search and research_topic
      queries |-> <<>>, i |-> 0, results |-> <<>>,
      topic |-> None, depth |-> None, context_size |-> None,
      \* what the last Runner.run_sync call did, and the method's return value
      gw |-> <<>>, out |-> <<>>,
      \* history: the tier the shared tool held when the request began, and
      \* whether another request was running at any time since
      start_size |-> None, overlapped |-> FALSE ]

\* the process before its app module is loaded: the app it was started with,
\* and whether the environment holds an OpenAI API key
InitSvc(app, credential) ==
    [ app |-> app, credential |-> credential, phase |-> "init",
      \* websearch_app: the global agent, and the tier of the tool in agent.tools
      agent_ready |-> FALSE, sa_size |-> None ]

Init ==
    /\ \E app \in {"main", "standalone"}, credential \in BOOLEAN :
          svc = InitSvc(app, credential)
    /\ config_size = DefaultContextSize
    /\ tool_size = DefaultContextSize
    /\ pc = [p \in Procs |-> "idle"]
    /\ loc = [p \in Procs |-> InitLoc]
    /\ inflight = [p \in Procs |-> <<>>]
    /\ glog = [p \in Procs |-> <<>>]
    /\ response = [p \in Procs |-> <<>>]

\* A request may start on slot p.  On the asyncio loop (serial) a handler runs
\* to its return before the next one starts: no agent method awaits anything
\* but another agent method, and Runner.run_sync blocks the loop.
CanStart(p, serial) ==
    /\ svc.app = "main"
    /\ svc.phase = "serving"
    /\ pc[p] = "idle"
    /\ serial => (p = 1 /\ \A q \in Procs : pc[q] = "idle")

Running(q) == pc[q] \notin {"idle", "done"}

\* a handler is entered on slot p
Enter(p, fields) ==
    /\ loc' = [q \in Procs |->
                 IF q = p
                 THEN [fields @@ InitLoc EXCEPT
                          !.start_size = tool_size,
                          !.overlapped = \E r \in Procs \ {p} : Running(r)]
                 ELSE [loc[q] EXCEPT !.overlapped = @ \/ Running(q)]]
    /\ glog' = [glog EXCEPT ![p] = <<>>]

\* ... and goes on into the agent: no response yet
Begin(p, fields) ==
    /\ Enter(p, fields)
    /\ response' = [response EXCEPT ![p] = <<>>]

\* ... and returns at once
Answer(p, fields, http) ==
    /\ Enter(p, fields)
    /\ response' = [response EXCEPT ![p] = <<http>>]
    /\ pc' = [pc EXCEPT ![p] = "done"]
    /\ UNCHANGED <<config_size, tool_size, inflight>>

(***************************************************************************)
(* Runner.run_sync(agent, prompt)                                          *)
(***************************************************************************)
\* the call is issued: the agent handed over, its prompt, and the tier the
\* shared tool holds at that moment
Call(kind, agent, prompt) ==
    [kind |-> kind, agent |-> agent.name, tools |-> agent.tools, prompt |-> prompt,
     tier |-> tool_size]

Waiting ==
    {"search_wait", "chat_wait", "multi_wait", "research_gen_wait", "research_wait",
     "sa_wait"}

AfterWait(w) ==
    CASE w = "search_wait" -> "search_after"
      [] w = "chat_wait" -> "chat_after"
      [] w = "multi_wait" -> "multi_after"
      [] w = "research_gen_wait" -> "research_parse"
      [] w = "research_wait" -> "research_after"
      [] w = "sa_wait" -> "sa_after"

\* a line of generated text as the model returns it, and what str.strip makes of it
RawLines == {"", "q1", " q2 ", "   "}
Strip(line) ==
    CASE line = "" -> ""
      [] line = "   " -> ""
      [] line = "q1" -> "q1"
      [] line = " q2 " -> "q2"

\* result.final_output of a call that returns
Outputs(kind) ==
    IF kind = "generate" THEN SeqsUpTo(RawLines, MaxLines) ELSE Answers

Complete(p, outcome) ==
    /\ pc[p] \in Waiting
    /\ loc' = [loc EXCEPT ![p].gw = <<outcome>>]
    /\ glog' = [glog EXCEPT ![p] = Append(@, inflight[p][1] @@ [ok |-> outcome.ok])]
    /\ inflight' = [inflight EXCEPT ![p] = <<>>]
    /\ pc' = [pc EXCEPT ![p] = AfterWait(pc[p])]
    /\ UNCHANGED <<svc, config_size, tool_size, response>>

\* the gateway answers only a caller that presents a key
GatewayReturn(p) ==
    /\ pc[p] \in Waiting
    /\ svc.credential
    /\ \E text \in Outputs(inflight[p][1].kind) :
          Complete(p, [ok |-> TRUE, final_output |-> text])

GatewayRaise(p) ==
    /\ pc[p] \in Waiting
    /\ \E e \in Exceptions : Complete(p, [ok |-> FALSE, exc |-> e])

\* the failure dict with the exception's class name left out
FailureUntyped(key, value, e) ==
    (key :> value) @@ [success |-> FALSE, error |-> e.msg, error_type |-> ""]

\* the except clause shared by all four methods: the failure dict
Failure(key, value, e) ==
    (key :> value) @@ [success |-> FALSE, error |-> e.msg, error_type |-> e.type]

(***************************************************************************)
(* Startup of app.main: importing app.api.routes                           *)
(***************************************************************************)
\* the settings check the router module makes before it builds search_agent
StartupAccepts(credential) == credential

\* if not settings.openai_api_key: raise ValueError(...);
\* search_agent = OpenAISearchAgent(api_key=settings.openai_api_key)
StartMain ==
    /\ svc.app = "main"
    /\ svc.phase = "init"
    /\ svc' = [svc EXCEPT !.phase = IF StartupAccepts(svc.credential)
                                    THEN "serving" ELSE "failed"]
    /\ UNCHANGED <<config_size, tool_size, pc, loc, inflight, glog, response>>

(***************************************************************************)
(* OpenAISearchAgent.update_search_config                                  *)
(***************************************************************************)
UpdateSearchConfig(size) ==
    /\ svc.app = "main"
    /\ svc.phase = "serving"
    /\ \A q \in Procs : pc[q] = "idle"
    /\ config_size' = size
    /\ tool_size' = size
    /\ UNCHANGED <<svc, pc, loc, inflight, glog, response>>

(***************************************************************************)
(* OpenAISearchAgent.search                                                *)
(***************************************************************************)
EnterSearch(frame, query, context_size, ret) ==
    [frame EXCEPT !.s_query = query, !.s_context_size = context_size,
                  !.original_context_size = None, !.s_ret = ret, !.s_result = <<>>]

\* original_context_size = self.web_search_tool.search_context_size
SearchEnter(p) ==
    /\ pc[p] = "search_enter"
    /\ loc' = [loc EXCEPT ![p].original_context_size = tool_size]
    /\ pc' = [pc EXCEPT ![p] = "search_override"]
    /\ UNCHANGED <<svc, config_size, tool_size, inflight, glog, response>>

\* the override never written to the shared tool
SearchOverrideSkipped(p) ==
    /\ pc[p] = "search_override"
    /\ pc' = [pc EXCEPT ![p] = "search_run"]
    /\ UNCHANGED <<svc, config_size, tool_size, loc, inflight, glog, response>>

\* if context_size: self.web_search_tool.search_context_size = context_size
SearchOverride(p) ==
    /\ pc[p] = "search_override"
    /\ tool_size' = IF loc[p].s_context_size # None THEN loc[p].s_context_size ELSE tool_size
    /\ pc' = [pc EXCEPT ![p] = "search_run"]
    /\ UNCHANGED <<svc, config_size, loc, inflight, glog, response>>

\* result = Runner.run_sync(self.agent, query)
SearchRun(p) ==
    /\ pc[p] = "search_run"
    /\ inflight' = [inflight EXCEPT ![p] = <<Call("search", SharedAgent, loc[p].s_query)>>]
    /\ pc' = [pc EXCEPT ![p] = "search_wait"]
    /\ UNCHANGED <<svc, config_size, tool_size, loc, glog, response>>

\* the value written back to the tool once the call has returned
RestoredSize(p) ==
    IF loc[p].s_context_size # None THEN loc[p].original_context_size ELSE tool_size

SearchSuccess(p, final_output) ==
    [ success |-> TRUE,
      query |-> loc[p].s_query,
      response |-> final_output,
      metadata |-> [ model |-> "gpt-4o",
                     search_context_size |->
                         IF loc[p].s_context_size # None
                         THEN loc[p].s_context_size ELSE config_size,
                     tokens_used |-> None,
                     tool |-> "WebSearchTool" ] ]

\* a search that issues its call once more when the first one raised
SearchFinishRetry(p) ==
    /\ pc[p] = "search_after"
    /\ LET gw == loc[p].gw[1]
       IN  IF gw.ok
           THEN /\ tool_size' = RestoredSize(p)
                /\ loc' = [loc EXCEPT ![p].s_result = <<SearchSuccess(p, gw.final_output)>>]
                /\ pc' = [pc EXCEPT ![p] = loc[p].s_ret]
           ELSE IF Len(glog[p]) = 1
           THEN /\ UNCHANGED <<tool_size, loc>>
                /\ pc' = [pc EXCEPT ![p] = "search_run"]
           ELSE /\ tool_size' = tool_size
                /\ loc' = [loc EXCEPT ![p].s_result =
                               <<Failure("query", loc[p].s_query, gw.exc)>>]
                /\ pc' = [pc EXCEPT ![p] = loc[p].s_ret]
    /\ UNCHANGED <<svc, config_size, inflight, glog, response>>

\* the call returned: restore and build the success dict; it raised: the
\* except clause builds the failure dict, and nothing is restored
SearchFinish(p) ==
    /\ pc[p] = "search_after"
    /\ LET gw == loc[p].gw[1]
       IN  IF gw.ok
           THEN /\ tool_size' = RestoredSize(p)
                /\ loc' = [loc EXCEPT ![p].s_result = <<SearchSuccess(p, gw.final_output)>>]
           ELSE /\ tool_size' = tool_size
                /\ loc' = [loc EXCEPT ![p].s_result =
                               <<Failure("query", loc[p].s_query, gw.exc)>>]
    /\ pc' = [pc EXCEPT ![p] = loc[p].s_ret]
    /\ UNCHANGED <<svc, config_size, inflight, glog, response>>

(***************************************************************************)
(* routes.py: request models, response models, POST /search                *)
(***************************************************************************)
Has(body, field) == field \in DOMAIN body
Get(body, field, default) == IF Has(body, field) THEN body[field] ELSE default

\* pydantic Model(**result): unknown keys are ignored, absent optional fields
\* are None, an absent required field is a ValidationError
ModelFields(result, required, optional) ==
    [f \in required \cup optional |-> IF f \in DOMAIN result THEN result[f] ELSE None]

Http(status, body) == [status |-> status, body |-> body]

\* return Model(**result), inside the handler's try / except Exception
Respond(result, required, optional) ==
    IF required \subseteq DOMAIN result
    THEN Http(200, ModelFields(result, required, optional))
    ELSE Http(500, [detail |-> "validation error"])

Unprocessable == Http(422, [detail |-> "request validation failed"])

Reject(p, op, body) ==
    /\ Answer(p, [op |-> op, body |-> body], Unprocessable)
    /\ UNCHANGED svc

\* class SearchRequest
SearchBodies ==
    {[query |-> "q1"], [context_size |-> "low"]}
    \cup {[query |-> "q1", context_size |-> c] : c \in Tiers \cup {"huge"}}

ValidSearchRequest(body) ==
    /\ Has(body, "query")
    /\ Has(body, "context_size") => body.context_size \in Tiers

\* POST /search
PostSearch(p, serial) ==
    /\ CanStart(p, serial)
    /\ \E body \in SearchBodies :
          IF ValidSearchRequest(body)
          THEN /\ Begin(p, EnterSearch([op |-> "search", body |-> body] @@ InitLoc,
                                        body.query, Get(body, "context_size", None),
                                        "route_search"))
               /\ pc' = [pc EXCEPT ![p] = "search_enter"]
               /\ UNCHANGED <<svc, config_size, tool_size, inflight>>
          ELSE Reject(p, "search", body)

\* class SearchResponse, return SearchResponse(**result)
SearchResponse(result) ==
    Respond(result, {"success", "query"}, {"response", "metadata", "error"})

RouteSearchReturn(p) ==
    /\ pc[p] = "route_search"
    /\ loc' = [loc EXCEPT ![p].out = loc[p].s_result]
    /\ response' = [response EXCEPT ![p] = <<SearchResponse(loc[p].s_result[1])>>]
    /\ pc' = [pc EXCEPT ![p] = "done"]
    /\ UNCHANGED <<svc, config_size, tool_size, inflight, glog>>

(***************************************************************************)
(* OpenAISearchAgent.chat and POST /chat                                   *)
(***************************************************************************)
\* the shared agent used whatever enable_search says
ChatAgentShared(enable_search) == SharedAgent

\* agent = self.agent if enable_search else Agent(name="ChatAssistant", ...)
ChatAgent(enable_search) == IF enable_search THEN SharedAgent ELSE ChatAssistant

\* f"{msg.get('role', 'user')}: {msg.get('content', '')}"
TurnLine(msg) == <<Get(msg, "role", "user"), ": ", Get(msg, "content", "")>>

\* a prompt that puts the current message first and the history after it
FullMessageTrailing(message, conversation_history) ==
    IF conversation_history # <<>>
    THEN << <<"Current message: ", message>>, <<>>, <<"Conversation history:">> >>
         \o [k \in 1..Len(conversation_history) |-> TurnLine(conversation_history[k])]
    ELSE <<<<message>>>>

\* full_message, as its lines (the text is the lines joined by "\n"), each line
\* as the pieces the f-strings put together
FullMessage(message, conversation_history) ==
    IF conversation_history # <<>>
    THEN <<<<"Conversation history:">>>>
         \o [k \in 1..Len(conversation_history) |-> TurnLine(conversation_history[k])]
         \o << <<>>, <<"Current message: ", message>> >>
    ELSE <<<<message>>>>

ChatRun(p) ==
    /\ pc[p] = "chat_enter"
    /\ inflight' = [inflight EXCEPT ![p] =
          <<Call("chat", ChatAgent(loc[p].enable_search),
                 FullMessage(loc[p].message, loc[p].conversation_history))>>]
    /\ pc' = [pc EXCEPT ![p] = "chat_wait"]
    /\ UNCHANGED <<svc, config_size, tool_size, loc, glog, response>>

ChatSuccess(p, final_output) ==
    [ success |-> TRUE,
      message |-> loc[p].message,
      response |-> final_output,
      conversation_id |-> None,
      metadata |-> [ model |-> "gpt-4o",
                     search_enabled |-> loc[p].enable_search,
                     tokens_used |-> None ] ]

ChatFinish(p) ==
    /\ pc[p] = "chat_after"
    /\ LET gw == loc[p].gw[1]
       IN  loc' = [loc EXCEPT ![p].out =
                      IF gw.ok THEN <<ChatSuccess(p, gw.final_output)>>
                      ELSE <<Failure("message", loc[p].message, gw.exc)>>]
    /\ pc' = [pc EXCEPT ![p] = "route_chat"]
    /\ UNCHANGED <<svc, config_size, tool_size, inflight, glog, response>>

\* class ChatRequest
Histories ==
    { <<>>,
      <<[role |-> "user", content |-> "hi"]>>,
      <<[role |-> "user", content |-> "hi"], [role |-> "assistant", content |-> "yo"]>> }

ChatBodies ==
    {[message |-> "m1"], [enable_search |-> FALSE]}
    \cup {[message |-> "m1", enable_search |-> b] : b \in BOOLEAN}
    \cup {[message |-> "m1", conversation_history |-> h, enable_search |-> b] :
             h \in Histories, b \in BOOLEAN}

ValidChatRequest(body) == Has(body, "message")

\* POST /chat
PostChat(p, serial) ==
    /\ CanStart(p, serial)
    /\ \E body \in ChatBodies :
          IF ValidChatRequest(body)
          THEN /\ Begin(p, [ op |-> "chat", body |-> body,
                             message |-> body.message,
                             conversation_history |-> Get(body, "conversation_history", <<>>),
                             enable_search |-> Get(body, "enable_search", TRUE) ])
               /\ pc' = [pc EXCEPT ![p] = "chat_enter"]
               /\ UNCHANGED <<svc, config_size, tool_size, inflight>>
          ELSE Reject(p, "chat", body)

\* class ChatResponse, return ChatResponse(**result)
ChatResponse(result) ==
    Respond(result, {"success", "message"}, {"response", "conversation_id", "error"})

RouteChatReturn(p) ==
    /\ pc[p] = "route_chat"
    /\ response' = [response EXCEPT ![p] = <<ChatResponse(loc[p].out[1])>>]
    /\ pc' = [pc EXCEPT ![p] = "done"]
    /\ UNCHANGED <<svc, config_size, tool_size, loc, inflight, glog>>

(***************************************************************************)
(* OpenAISearchAgent.multi_query_search and POST /search/multi-query       *)
(***************************************************************************)
\* for query in queries: result = await self.search(query)
MultiNext(p) ==
    /\ pc[p] = "multi_loop"
    /\ loc[p].i <= Len(loc[p].queries)
    /\ loc' = [loc EXCEPT ![p] =
                  EnterSearch(@, loc[p].queries[loc[p].i], None, "multi_collect")]
    /\ pc' = [pc EXCEPT ![p] = "search_enter"]
    /\ UNCHANGED <<svc, config_size, tool_size, inflight, glog, response>>

\* every result appended, failed ones too
CollectedAlways(results, key, result) ==
    Append(results, ("query" :> result.query)
                    @@ (key :> IF result.success THEN result.response ELSE None))

\* a successful result put in front of the list
CollectedFront(results, key, result) ==
    IF result.success
    THEN <<("query" :> result.query) @@ (key :> result.response)>> \o results
    ELSE results

\* the list after one pass of the loop body: a successful result is appended
Collected(results, key, result) ==
    IF result.success
    THEN Append(results, ("query" :> result.query) @@ (key :> result.response))
    ELSE results

\* a failed search ends the whole operation with that failure
MultiCollectAbort(p) ==
    /\ pc[p] = "multi_collect"
    /\ IF loc[p].s_result[1].success
       THEN /\ loc' = [loc EXCEPT
                         ![p].results = Append(@, [query |-> loc[p].s_result[1].query,
                                                   response |-> loc[p].s_result[1].response]),
                         ![p].i = @ + 1]
            /\ pc' = [pc EXCEPT ![p] = "multi_loop"]
       ELSE /\ loc' = [loc EXCEPT ![p].out = loc[p].s_result]
            /\ pc' = [pc EXCEPT ![p] = "route_multi"]
    /\ UNCHANGED <<svc, config_size, tool_size, inflight, glog, response>>

MultiCollect(p) ==
    /\ pc[p] = "multi_collect"
    /\ loc' = [loc EXCEPT ![p].results = Collected(@, "response", loc[p].s_result[1]),
                          ![p].i = @ + 1]
    /\ pc' = [pc EXCEPT ![p] = "multi_loop"]
    /\ UNCHANGED <<svc, config_size, tool_size, inflight, glog, response>>

\* synthesis_result = Runner.run_sync(self.agent, synthesis_prompt), the
\* prompt embedding json.dumps(results)
MultiSynthesize(p) ==
    /\ pc[p] = "multi_loop"
    /\ loc[p].i > Len(loc[p].queries)
    /\ inflight' = [inflight EXCEPT ![p] =
          <<Call("synthesis", SharedAgent, [evidence |-> loc[p].results])>>]
    /\ pc' = [pc EXCEPT ![p] = "multi_wait"]
    /\ UNCHANGED <<svc, config_size, tool_size, loc, glog, response>>

MultiSuccess(p, final_output) ==
    [ success |-> TRUE,
      queries |-> loc[p].queries,
      individual_results |-> loc[p].results,
      synthesis |-> final_output,
      metadata |-> [model |-> "gpt-4o", num_queries |-> Len(loc[p].queries)] ]

MultiFinish(p) ==
    /\ pc[p] = "multi_after"
    /\ LET gw == loc[p].gw[1]
       IN  loc' = [loc EXCEPT ![p].out =
                      IF gw.ok THEN <<MultiSuccess(p, gw.final_output)>>
                      ELSE <<Failure("queries", loc[p].queries, gw.exc)>>]
    /\ pc' = [pc EXCEPT ![p] = "route_multi"]
    /\ UNCHANGED <<svc, config_size, tool_size, inflight, glog, response>>

\* agent_provider
AgentProvider == "openai-websearch"

\* class MultiQueryRequest: queries: List[str] = Field(...)
MultiQueryBodies ==
    {[queries |-> qs] : qs \in SeqsUpTo(Queries, MaxQueries)} \cup {[query |-> "q1"]}

ValidMultiQueryRequest(body) == Has(body, "queries")

\* POST /search/multi-query
PostMultiQuery(p, serial) ==
    /\ CanStart(p, serial)
    /\ \E body \in MultiQueryBodies :
          IF ~ValidMultiQueryRequest(body)
          THEN Reject(p, "multi", body)
          ELSE IF AgentProvider = "openai-websearch"
          THEN /\ Begin(p, [op |-> "multi", body |-> body, queries |-> body.queries, i |-> 1])
               /\ pc' = [pc EXCEPT ![p] = "multi_loop"]
               /\ UNCHANGED <<svc, config_size, tool_size, inflight>>
          ELSE /\ Answer(p, [op |-> "multi", body |-> body],
                         Http(400, [detail |-> "only available with OpenAI WebSearch provider"]))
               /\ UNCHANGED svc

\* return result
RouteMultiReturn(p) ==
    /\ pc[p] = "route_multi"
    /\ response' = [response EXCEPT ![p] = <<Http(200, loc[p].out[1])>>]
    /\ pc' = [pc EXCEPT ![p] = "done"]
    /\ UNCHANGED <<svc, config_size, tool_size, loc, inflight, glog>>

(***************************************************************************)
(* OpenAISearchAgent.research_topic and POST /research                     *)
(***************************************************************************)
\* the tiers one step off
context_map_shifted == [basic |-> "medium", detailed |-> "high", comprehensive |-> "high"]

context_map == [basic |-> "low", detailed |-> "medium", comprehensive |-> "high"]

\* {3 if depth == 'basic' else 5 if depth == 'detailed' else 7}
QueryCount(depth) == IF depth = "basic" THEN 3 ELSE IF depth = "detailed" THEN 5 ELSE 7

\* context_size = context_map[depth]; the query-generation call
ResearchGenerate(p) ==
    /\ pc[p] = "research_enter"
    /\ loc' = [loc EXCEPT ![p].context_size = context_map[loc[p].depth]]
    /\ inflight' = [inflight EXCEPT ![p] =
          <<Call("generate", QueryGenerator,
                 [count |-> QueryCount(loc[p].depth), topic |-> loc[p].topic])>>]
    /\ pc' = [pc EXCEPT ![p] = "research_gen_wait"]
    /\ UNCHANGED <<svc, config_size, tool_size, glog, response>>

\* a split that keeps every non-empty line as it stands
ParseQueriesUntrimmed(lines) == SelectSeq(lines, LAMBDA line : line # "")

\* [q.strip() for q in final_output.split('\n') if q.strip()]
RECURSIVE ParseQueries(_)
ParseQueries(lines) ==
    IF lines = <<>> THEN <<>>
    ELSE IF Strip(Head(lines)) # ""
         THEN <<Strip(Head(lines))>> \o ParseQueries(Tail(lines))
         ELSE ParseQueries(Tail(lines))

ResearchFailure(p, e) == Failure("topic", loc[p].topic, e)

ResearchParse(p) ==
    /\ pc[p] = "research_parse"
    /\ LET gw == loc[p].gw[1]
       IN  IF gw.ok
           THEN /\ loc' = [loc EXCEPT ![p].queries = ParseQueries(gw.final_output),
                                      ![p].i = 1]
                /\ pc' = [pc EXCEPT ![p] = "research_loop"]
           ELSE /\ loc' = [loc EXCEPT ![p].out = <<ResearchFailure(p, gw.exc)>>]
                /\ pc' = [pc EXCEPT ![p] = "route_research"]
    /\ UNCHANGED <<svc, config_size, tool_size, inflight, glog, response>>

\* for query in queries: result = await self.search(query, context_size=context_size)
ResearchNext(p) ==
    /\ pc[p] = "research_loop"
    /\ loc[p].i <= Len(loc[p].queries)
    /\ loc' = [loc EXCEPT ![p] =
                  EnterSearch(@, loc[p].queries[loc[p].i], loc[p].context_size,
                              "research_collect")]
    /\ pc' = [pc EXCEPT ![p] = "search_enter"]
    /\ UNCHANGED <<svc, config_size, tool_size, inflight, glog, response>>

ResearchCollect(p) ==
    /\ pc[p] = "research_collect"
    /\ loc' = [loc EXCEPT ![p].results = Collected(@, "findings", loc[p].s_result[1]),
                          ![p].i = @ + 1]
    /\ pc' = [pc EXCEPT ![p] = "research_loop"]
    /\ UNCHANGED <<svc, config_size, tool_size, inflight, glog, response>>

\* report_result = Runner.run_sync(self.agent, report_prompt)
ResearchReport(p) ==
    /\ pc[p] = "research_loop"
    /\ loc[p].i > Len(loc[p].queries)
    /\ inflight' = [inflight EXCEPT ![p] =
          <<Call("report", SharedAgent,
                 [evidence |-> loc[p].results, topic |-> loc[p].topic])>>]
    /\ pc' = [pc EXCEPT ![p] = "research_wait"]
    /\ UNCHANGED <<svc, config_size, tool_size, loc, glog, response>>

ResearchSuccess(p, final_output) ==
    [ success |-> TRUE,
      topic |-> loc[p].topic,
      depth |-> loc[p].depth,
      research_queries |-> loc[p].queries,
      findings |-> loc[p].results,
      report |-> final_output,
      metadata |-> [ model |-> "gpt-4o",
                     context_size |-> loc[p].context_size,
                     num_queries |-> Len(loc[p].queries) ] ]

ResearchFinish(p) ==
    /\ pc[p] = "research_after"
    /\ LET gw == loc[p].gw[1]
       IN  loc' = [loc EXCEPT ![p].out =
                      IF gw.ok THEN <<ResearchSuccess(p, gw.final_output)>>
                      ELSE <<ResearchFailure(p, gw.exc)>>]
    /\ pc' = [pc EXCEPT ![p] = "route_research"]
    /\ UNCHANGED <<svc, config_size, tool_size, inflight, glog, response>>

\* class ResearchRequest
ResearchBodies ==
    {[topic |-> "t1"], [depth |-> "basic"]}
    \cup {[topic |-> "t1", depth |-> d] : d \in Depths \cup {"deep"}}

ValidResearchRequest(body) ==
    /\ Has(body, "topic")
    /\ Has(body, "depth") => body.depth \in Depths

\* POST /research
PostResearch(p, serial) ==
    /\ CanStart(p, serial)
    /\ \E body \in ResearchBodies :
          IF ~ValidResearchRequest(body)
          THEN Reject(p, "research", body)
          ELSE IF AgentProvider = "openai-websearch"
          THEN /\ Begin(p, [ op |-> "research", body |-> body, topic |-> body.topic,
                             depth |-> Get(body, "depth", "detailed") ])
               /\ pc' = [pc EXCEPT ![p] = "research_enter"]
               /\ UNCHANGED <<svc, config_size, tool_size, inflight>>
          ELSE /\ Answer(p, [op |-> "research", body |-> body],
                         Http(400, [detail |-> "only available with OpenAI WebSearch provider"]))
               /\ UNCHANGED svc

RouteResearchReturn(p) ==
    /\ pc[p] = "route_research"
    /\ response' = [response EXCEPT ![p] = <<Http(200, loc[p].out[1])>>]
    /\ pc' = [pc EXCEPT ![p] = "done"]
    /\ UNCHANGED <<svc, config_size, tool_size, loc, inflight, glog>>

(***************************************************************************)
(* routes.py: GET /health and POST /search/structured                      *)
(***************************************************************************)
HealthBody == [status |-> "healthy", service |-> "search-agent"]

\* GET /health
GetHealth(p, serial) ==
    /\ CanStart(p, serial)
    /\ Answer(p, [op |-> "health"], Http(200, HealthBody))
    /\ UNCHANGED svc

\* raise HTTPException(status_code=..., detail=...)
HTTPException(status, detail) ==
    [type |-> "HTTPException", status |-> status, detail |-> detail]

\* str(e): starlette prints an HTTPException as "<status>: <detail>"
Str(e) ==
    CASE e.type = "HTTPException" /\ e.status = 400 -> "400: " \o e.detail
      [] OTHER -> e.detail

\* except Exception as e: raise HTTPException(status_code=500, detail=str(e)),
\* with no clause that lets an HTTPException through
StructuredExcept(e) == Http(500, [detail |-> Str(e)])

\* the try body of structured_search: OpenAISearchAgent has no
\* structured_search method, and any other provider is refused
StructuredRaises ==
    IF AgentProvider = "openai"
    THEN [type |-> "AttributeError", status |-> 0, detail |-> "structured_search"]
    ELSE HTTPException(400, "Structured search is only available with OpenAI provider")

\* POST /search/structured
PostStructured(p, serial) ==
    /\ CanStart(p, serial)
    /\ \E body \in SearchBodies :
          IF ValidSearchRequest(body)
          THEN /\ Answer(p, [op |-> "structured", body |-> body],
                         StructuredExcept(StructuredRaises))
               /\ UNCHANGED svc
          ELSE Reject(p, "structured", body)

(***************************************************************************)
(* websearch_app.py: the standalone app                                    *)
(***************************************************************************)
\* startup_event: the agent is built with WebSearchTool("medium"); a failed
\* import or any other exception is printed and the app starts without agent.
\* No key is looked at.
StartStandalone ==
    /\ svc.app = "standalone"
    /\ svc.phase = "init"
    /\ \E built \in BOOLEAN :
          svc' = [svc EXCEPT !.phase = "serving", !.agent_ready = built,
                             !.sa_size = IF built THEN "medium" ELSE None]
    /\ UNCHANGED <<config_size, tool_size, pc, loc, inflight, glog, response>>

SaCanStart(p) ==
    /\ svc.app = "standalone"
    /\ svc.phase = "serving"
    /\ pc[p] = "idle"

\* the body of a strictly health-gated probe: healthy only with an agent
SaHealthBodyGated(agent_ready) ==
    [status |-> IF agent_ready THEN "healthy" ELSE "unavailable", agent_ready |-> agent_ready]

SaHealthBody(agent_ready) == [status |-> "healthy", agent_ready |-> agent_ready]

\* GET /health
SaGetHealth(p) ==
    /\ SaCanStart(p)
    /\ Answer(p, [op |-> "sa_health"], Http(200, SaHealthBody(svc.agent_ready)))
    /\ UNCHANGED svc

\* class SearchRequest: context_size defaults to "medium" and may be null
SaSearchBodies ==
    {[query |-> "q1"], [context_size |-> "low"]}
    \cup {[query |-> "q1", context_size |-> c] : c \in Tiers \cup {None, "huge"}}

SaValidSearchRequest(body) ==
    /\ Has(body, "query")
    /\ Has(body, "context_size") => body.context_size \in Tiers \cup {None}

\* if request.context_size and request.context_size != "medium":
\*     agent.tools = [WebSearchTool(search_context_size=request.context_size)]
SaToolSize(current, context_size) ==
    IF context_size # None /\ context_size # "medium" THEN context_size ELSE current

\* POST /search up to its await: the handler runs on the event loop until it
\* hands Runner.run_sync to the executor
SaPostSearch(p) ==
    /\ SaCanStart(p)
    /\ \E body \in SaSearchBodies :
          IF ~SaValidSearchRequest(body)
          THEN Reject(p, "sa_search", body)
          ELSE IF ~svc.agent_ready
          THEN /\ Answer(p, [op |-> "sa_search", body |-> body],
                         Http(503, [detail |-> "Agent not initialized"]))
               /\ UNCHANGED svc
          ELSE /\ Begin(p, [ op |-> "sa_search", body |-> body, s_query |-> body.query,
                             s_context_size |-> Get(body, "context_size", "medium") ])
               /\ svc' = [svc EXCEPT !.sa_size =
                             SaToolSize(@, Get(body, "context_size", "medium"))]
               /\ pc' = [pc EXCEPT ![p] = "sa_submitted"]
               /\ UNCHANGED <<config_size, tool_size, inflight>>

\* lambda: Runner.run_sync(agent, request.query), on an executor thread: the
\* run uses the tools the shared agent holds when it starts
SaRun(p) ==
    /\ pc[p] = "sa_submitted"
    /\ inflight' = [inflight EXCEPT ![p] =
          <<[Call("search", SharedAgent, loc[p].s_query) EXCEPT !.tier = svc.sa_size]>>]
    /\ pc' = [pc EXCEPT ![p] = "sa_wait"]
    /\ UNCHANGED <<svc, config_size, tool_size, loc, glog, response>>

SaSearchSuccess(p, final_output) ==
    [ success |-> TRUE, query |-> loc[p].s_query, response |-> final_output,
      metadata |-> [ model |-> "gpt-4o", context_size |-> loc[p].s_context_size,
                     tool |-> "WebSearchTool" ],
      error |-> None ]

SaSearchFailure(p, e) ==
    [ success |-> FALSE, query |-> loc[p].s_query, response |-> None,
      metadata |-> None, error |-> e.msg ]

\* the await returns or raises: return SearchResponse(...)
SaFinish(p) ==
    /\ pc[p] = "sa_after"
    /\ LET gw == loc[p].gw[1]
       IN  response' = [response EXCEPT ![p] =
                           <<Http(200, IF gw.ok THEN SaSearchSuccess(p, gw.final_output)
                                       ELSE SaSearchFailure(p, gw.exc))>>]
    /\ pc' = [pc EXCEPT ![p] = "done"]
    /\ UNCHANGED <<svc, config_size, tool_size, loc, inflight, glog>>

Standalone(p) ==
    \/ SaGetHealth(p) \/ SaPostSearch(p) \/ SaRun(p) \/ SaFinish(p)

(***************************************************************************)
(* The service.                                                            *)
(***************************************************************************)
\* the response has been sent: the request's values are discarded and the
\* slot is free for the next request
Deliver(p) ==
    /\ pc[p] = "done"
    /\ pc' = [pc EXCEPT ![p] = "idle"]
    /\ loc' = [loc EXCEPT ![p] = InitLoc]
    /\ glog' = [glog EXCEPT ![p] = <<>>]
    /\ response' = [response EXCEPT ![p] = <<>>]
    /\ UNCHANGED <<svc, config_size, tool_size, inflight>>

AgentStep(p) ==
    \/ SearchEnter(p) \/ SearchOverride(p) \/ SearchRun(p) \/ SearchFinish(p)
    \/ ChatRun(p) \/ ChatFinish(p)
    \/ MultiNext(p) \/ MultiCollect(p) \/ MultiSynthesize(p) \/ MultiFinish(p)
    \/ ResearchGenerate(p) \/ ResearchParse(p) \/ ResearchNext(p)
    \/ ResearchCollect(p) \/ ResearchReport(p) \/ ResearchFinish(p)
    \/ GatewayReturn(p) \/ GatewayRaise(p)

RouteReturn(p) ==
    \/ RouteSearchReturn(p) \/ RouteChatReturn(p)
    \/ RouteMultiReturn(p) \/ RouteResearchReturn(p)
    \/ Deliver(p)

\* the process: app.main on its event loop, one handler at a time, or the
\* standalone app, whose /search handlers overlap while they await the executor
Next ==
    \/ StartMain
    \/ StartStandalone
    \/ \E size \in Tiers : UpdateSearchConfig(size)
    \/ \E p \in Procs :
          \/ PostSearch(p, TRUE) \/ PostChat(p, TRUE)
          \/ PostMultiQuery(p, TRUE) \/ PostResearch(p, TRUE)
          \/ GetHealth(p, TRUE) \/ PostStructured(p, TRUE)
          \/ AgentStep(p)
          \/ RouteReturn(p)
          \/ Standalone(p)

Spec == Init /\ [][Next]_vars

\* ... where the interpreter goes on running a handler it has entered, and
\* every gateway call issued comes back, with a result or with an exception
SpecFair == Init /\ [][Next]_vars /\ \A p \in Procs : WF_vars(AgentStep(p))

\* the shared agent driven by callers that run in parallel (handlers on worker
\* threads): /search requests start while others are in flight, and their
\* steps interleave on the shared tool
NextConc ==
    \/ StartMain
    \/ \E p \in Procs :
          \/ PostSearch(p, FALSE)
          \/ SearchEnter(p) \/ SearchOverride(p) \/ SearchRun(p) \/ SearchFinish(p)
          \/ GatewayReturn(p) \/ GatewayRaise(p)
          \/ RouteSearchReturn(p)
          \/ Deliver(p)

SpecConc == Init /\ [][NextConc]_vars

(***************************************************************************)
(* Properties.                                                             *)
(***************************************************************************)
\* the search calls of a log that returned, and how many there are
OkSearches(log) == SelectSeq(log, LAMBDA c : c.kind = "search" /\ c.ok)
OkCount(log) == Len(OkSearches(log))
SearchCount(log) == Len(SelectSeq(log, LAMBDA c : c.kind = "search"))
QueriesOf(entries) == [k \in 1..Len(entries) |-> entries[k].query]
OkQueries(log) == [k \in 1..OkCount(log) |-> OkSearches(log)[k].prompt]
Last(log) == log[Len(log)]

\* a failure dict built from the exception the gateway raised
IsFailureOf(result, exc) ==
    /\ result.success = FALSE
    /\ result.error = exc.msg
    /\ result.error_type = exc.type
    /\ result.error_type # ""

\* C1: search and chat never raise: each returns a dict, and when the gateway
\* call raised the dict is a Failure with success=false, the exception's
\* message as error and a non-empty error_type; the handlers of /search and
\* /chat never answer through their except clause (500).
C1_SearchChatReturnFailure ==
    \A p \in Procs :
        /\ pc[p] \in {"route_search", "multi_collect", "research_collect"} =>
              /\ loc[p].s_result # <<>>
              /\ IF loc[p].gw[1].ok
                 THEN loc[p].s_result[1].success
                 ELSE /\ IsFailureOf(loc[p].s_result[1], loc[p].gw[1].exc)
                      /\ loc[p].s_result[1].query = loc[p].s_query
        /\ pc[p] = "route_chat" =>
              /\ loc[p].out # <<>>
              /\ IF loc[p].gw[1].ok
                 THEN loc[p].out[1].success
                 ELSE /\ IsFailureOf(loc[p].out[1], loc[p].gw[1].exc)
                      /\ loc[p].out[1].message = loc[p].message
        /\ (pc[p] = "done" /\ loc[p].op \in {"search", "chat"}) =>
              response[p][1].status \in {200, 422}

\* a search whose gateway call raised RateLimitError has returned to /search
C1_Witness ==
    /\ pc[1] = "route_search"
    /\ ~loc[1].gw[1].ok
    /\ loc[1].s_result[1].error_type = "RateLimitError"

\* C2: multi_query_search issues exactly len(queries) search calls before the
\* synthesis call, and the evidence list in the synthesis prompt, which is the
\* individual_results it returns, has one entry per successful search.
C2_MultiQueryCallCount ==
    \A p \in Procs :
        /\ pc[p] = "multi_wait" =>
              /\ Len(glog[p]) = Len(loc[p].queries)
              /\ \A k \in 1..Len(glog[p]) : glog[p][k].kind = "search"
              /\ inflight[p][1].kind = "synthesis"
              /\ Len(inflight[p][1].prompt.evidence) = OkCount(glog[p])
        /\ (pc[p] = "route_multi" /\ loc[p].out[1].success) =>
              /\ SearchCount(glog[p]) = Len(loc[p].queries)
              /\ Len(loc[p].out[1].individual_results) = OkCount(glog[p])
              /\ loc[p].out[1].individual_results = glog[p][Len(glog[p])].prompt.evidence

\* the synthesis call of a three-query request runs after one search failed
C2_Witness ==
    /\ pc[1] = "multi_wait"
    /\ Len(loc[1].queries) = 3
    /\ OkCount(glog[1]) = 2

\* C3 as claimed: no gateway failure aborts a multi-step operation: every step
\* is issued and the operation returns its success-shaped result.
C3_NoStepAborts ==
    \A p \in Procs :
        /\ pc[p] = "route_multi" =>
              /\ loc[p].out[1].success
              /\ Len(glog[p]) = Len(loc[p].queries) + 1
        /\ pc[p] = "route_research" =>
              /\ loc[p].out[1].success
              /\ Len(glog[p]) = Len(loc[p].queries) + 2

\* C3 amended: a failed per-query search does not abort the operation: every
\* remaining search and the final synthesis / report call are issued, and the
\* operation returns its success-shaped result, built from the successful
\* searches, exactly when that final call returns.  A failure of the final
\* call, or of the query-generation call, makes the operation return a
\* Failure; after a failed query generation no further call is issued.
C3_OnlySearchFailuresAbsorbed ==
    \A p \in Procs :
        /\ pc[p] = "route_multi" =>
              /\ Len(glog[p]) = Len(loc[p].queries) + 1
              /\ Last(glog[p]).kind = "synthesis"
              /\ loc[p].out[1].success = Last(glog[p]).ok
              /\ loc[p].out[1].success =>
                    Len(loc[p].out[1].individual_results) = OkCount(glog[p])
        /\ pc[p] = "route_research" =>
              IF glog[p][1].ok
              THEN /\ Len(glog[p]) = Len(loc[p].queries) + 2
                   /\ Last(glog[p]).kind = "report"
                   /\ loc[p].out[1].success = Last(glog[p]).ok
                   /\ loc[p].out[1].success =>
                         Len(loc[p].out[1].findings) = OkCount(glog[p])
              ELSE /\ Len(glog[p]) = 1
                   /\ ~loc[p].out[1].success
                   /\ loc[p].out[1].error_type = loc[p].gw[1].exc.type

\* multi_query_search returns success although its second search failed
C3_Witness ==
    /\ pc[1] = "route_multi"
    /\ loc[1].out[1].success
    /\ Len(loc[1].queries) = 3
    /\ ~glog[1][2].ok
    /\ glog[1][3].ok

\* C4: a /search/multi-query request with an empty queries list is rejected
\* by validation and no gateway call is issued for it.
C4_EmptyQueriesRejected ==
    \A p \in Procs :
        (/\ loc[p].op = "multi"
         /\ Has(loc[p].body, "queries")
         /\ loc[p].body.queries = <<>>) =>
            /\ inflight[p] = <<>>
            /\ glog[p] = <<>>
            /\ pc[p] = "done" => response[p][1].status = 422

\* C5: every in-band failure body sent to a client carries success=false, an
\* error message and an error_type tag.
C5_FailureBodiesCarryErrorType ==
    \A p \in Procs :
        (/\ pc[p] = "done"
         /\ response[p][1].status = 200
         /\ Has(response[p][1].body, "success")
         /\ response[p][1].body.success = FALSE) =>
            {"success", "error", "error_type"} \subseteq DOMAIN response[p][1].body

\* the tier a search call asks for: its override, else the configured default
EffectiveTier(p) ==
    IF loc[p].s_context_size # None THEN loc[p].s_context_size ELSE config_size

\* C6: each search call issues one gateway invocation, and while it runs the
\* shared tool holds the requested tier, or the configured default tier when
\* none was requested.
C6_SearchRunsAtEffectiveTier ==
    \A p \in Procs :
        /\ pc[p] = "search_wait" =>
              /\ inflight[p][1].tier = EffectiveTier(p)
              /\ tool_size = EffectiveTier(p)
        /\ pc[p] = "route_search" => Len(glog[p]) = 1

C8_ChatWithoutSearchHasNoTools ==
    \A p \in Procs :
        (loc[p].op = "chat" /\ ~loc[p].enable_search) =>
            /\ inflight[p] # <<>> => inflight[p][1].tools = {}
            /\ \A k \in 1..Len(glog[p]) : glog[p][k].tools = {}

\* a chat without search is at the gateway while the shared tool still holds
\* a tier that an earlier failed search left behind
C8_Witness ==
    /\ pc[1] = "chat_wait"
    /\ ~loc[1].enable_search
    /\ loc[1].conversation_history # <<>>
    /\ tool_size # config_size

\* the mapping C9 states
C9_Count(depth) ==
    IF depth = "basic" THEN 3
    ELSE IF depth = "detailed" THEN 5
    ELSE IF depth = "comprehensive" THEN 7 ELSE 0
C9_Tier(depth) ==
    IF depth = "basic" THEN "low"
    ELSE IF depth = "detailed" THEN "medium"
    ELSE IF depth = "comprehensive" THEN "high" ELSE None

\* C9: research_topic asks the query generator for 3 / 5 / 7 queries at depth
\* basic / detailed / comprehensive, and every search it issues is passed the
\* tier low / medium / high and runs with the shared tool at that tier.
C9_ResearchDepthMapping ==
    \A p \in Procs :
        loc[p].op = "research" =>
            /\ pc[p] = "research_gen_wait" =>
                  inflight[p][1].prompt.count = C9_Count(loc[p].depth)
            /\ glog[p] # <<>> =>
                  /\ glog[p][1].kind = "generate"
                  /\ glog[p][1].prompt.count = C9_Count(loc[p].depth)
            /\ pc[p] = "search_wait" =>
                  /\ loc[p].s_context_size = C9_Tier(loc[p].depth)
                  /\ inflight[p][1].tier = C9_Tier(loc[p].depth)
                  /\ tool_size = C9_Tier(loc[p].depth)
            /\ \A k \in 1..Len(glog[p]) :
                  glog[p][k].kind = "search" => glog[p][k].tier = C9_Tier(loc[p].depth)

\* the second search of a comprehensive research runs at high while the
\* configured tier is medium
C9_Witness ==
    /\ loc[1].op = "research"
    /\ loc[1].depth = "comprehensive"
    /\ pc[1] = "search_wait"
    /\ loc[1].i = 2
    /\ config_size = "medium"
    /\ tool_size = "high"

\* C10: multi_query_search searches the queries one at a time in input order,
\* and its results are the order-preserving subsequence of the queries whose
\* search succeeded.
C10_MultiQueryOrderedSubsequence ==
    \A p \in Procs :
        loc[p].op = "multi" =>
            /\ \A k \in 1..Len(glog[p]) :
                  k <= Len(loc[p].queries) =>
                      /\ glog[p][k].kind = "search"
                      /\ glog[p][k].prompt = loc[p].queries[k]
            /\ pc[p] = "search_wait" =>
                  /\ Len(glog[p]) = loc[p].i - 1
                  /\ inflight[p][1].prompt = loc[p].queries[loc[p].i]
            /\ pc[p] \in {"multi_loop", "multi_wait", "multi_after", "route_multi"} =>
                  QueriesOf(loc[p].results) = OkQueries(glog[p])
            /\ (pc[p] = "route_multi" /\ loc[p].out[1].success) =>
                  /\ loc[p].out[1].queries = loc[p].body.queries
                  /\ QueriesOf(loc[p].out[1].individual_results) = OkQueries(glog[p])

\* q1, q1, q2 were searched, the second search failed, and the results are
\* those of q1 and q2 in that order
C10_Witness ==
    /\ pc[1] = "route_multi"
    /\ loc[1].out[1].success
    /\ loc[1].queries = <<"q1", "q1", "q2">>
    /\ glog[1][1].ok /\ ~glog[1][2].ok /\ glog[1][3].ok
    /\ QueriesOf(loc[1].out[1].individual_results) = <<"q1", "q2">>

\* C11: with a non-empty conversation_history the prompt chat hands to the
\* gateway holds one "<role>: <content>" line per turn, in history order, all
\* before the line "Current message: <message>"; with no history (absent or
\* empty) the prompt is exactly the message.
TurnsThenMessage(prompt, history, message) ==
    \E at \in [1..Len(history) -> 1..Len(prompt)], cur \in 1..Len(prompt) :
        /\ \A k \in 1..Len(history) :
              /\ prompt[at[k]] = <<history[k].role, ": ", history[k].content>>
              /\ at[k] < cur
              /\ \A j \in 1..Len(history) : j < k => at[j] < at[k]
        /\ prompt[cur] = <<"Current message: ", message>>

C11_ChatPromptOrder ==
    \A p \in Procs :
        pc[p] = "chat_wait" =>
            LET prompt == inflight[p][1].prompt
                history == Get(loc[p].body, "conversation_history", <<>>)
            IN  IF history # <<>>
                THEN TurnsThenMessage(prompt, history, loc[p].body.message)
                ELSE prompt = <<<<loc[p].body.message>>>>

\* a chat call with a two-turn history is in flight
C11_Witness ==
    \E p \in Procs :
        /\ pc[p] = "chat_wait"
        /\ Len(Get(loc[p].body, "conversation_history", <<>>)) = 2
        /\ Len(inflight[p][1].prompt) = 5


\* C12: the process never serves traffic without an API credential: no app
\* is serving, and no request is handled, while the credential is missing.
C12_NoTrafficWithoutCredential ==
    /\ svc.phase = "serving" => svc.credential
    /\ \A p \in Procs : pc[p] # "idle" => svc.credential

\* C13: GET /health answers 200 with status "healthy" and issues no gateway
\* call, in both apps, whatever the agent's state.
C13_HealthAlwaysHealthy ==
    \A p \in Procs :
        (pc[p] = "done" /\ loc[p].op \in {"health", "sa_health"}) =>
            /\ response[p][1].status = 200
            /\ response[p][1].body.status = "healthy"
            /\ glog[p] = <<>>
            /\ inflight[p] = <<>>

\* the standalone app, started without an agent, has answered a health probe
\* and reported agent_ready false
C13_Witness ==
    \E p \in Procs :
        /\ pc[p] = "done"
        /\ loc[p].op = "sa_health"
        /\ ~svc.agent_ready
        /\ response[p][1].body.agent_ready = FALSE


\* C14: when search returns from a call that carried a context-size override,
\* with either result, the shared tool holds the tier it held immediately
\* before the call.
C14_OverrideIsTemporary ==
    \A p \in Procs :
        (/\ pc[p] = loc[p].s_ret
         /\ loc[p].s_result # <<>>
         /\ loc[p].s_context_size # None) =>
            tool_size = loc[p].original_context_size


\* C15: in the standalone app every gateway call of POST /search runs with the
\* tool at the tier its request asked for, and a successful response reports
\* that tier in metadata.context_size.
C15_StandaloneRunsAtRequestedTier ==
    \A p \in Procs :
        (loc[p].op = "sa_search" /\ loc[p].s_context_size \in Tiers) =>
            /\ pc[p] = "sa_wait" => inflight[p][1].tier = loc[p].s_context_size
            /\ (pc[p] = "done" /\ glog[p] # <<>> /\ response[p][1].body.success) =>
                  /\ response[p][1].body.metadata.context_size = loc[p].s_context_size
                  /\ glog[p][1].tier = response[p][1].body.metadata.context_size


\* the non-blank lines of a generated text, trimmed, in line order
NonBlankTrimmed(lines) ==
    LET kept == SelectSeq(lines, LAMBDA line : Strip(line) # "")
    IN  [k \in 1..Len(kept) |-> Strip(kept[k])]

SearchCalls(log) == SelectSeq(log, LAMBDA c : c.kind = "search")

\* C16: research_topic takes as its queries the trimmed non-blank lines of the
\* generation output, duplicates kept and whatever count was asked for; it
\* issues one search call per query in that order, and when it returns after a
\* successful generation it has made Len(queries) search calls plus the
\* generation and the report call; research_queries is that list and
\* num_queries its length.
C16_ResearchOneSearchPerLine ==
    \A p \in Procs :
        loc[p].op = "research" =>
            /\ (pc[p] = "research_loop" /\ loc[p].i = 1) =>
                  loc[p].queries = NonBlankTrimmed(loc[p].gw[1].final_output)
            /\ \A k \in 1..Len(SearchCalls(glog[p])) :
                  /\ k <= Len(loc[p].queries)
                  /\ SearchCalls(glog[p])[k].prompt = loc[p].queries[k]
            /\ (pc[p] = "search_wait") =>
                  /\ Len(SearchCalls(glog[p])) + 1 = loc[p].i
                  /\ inflight[p][1].prompt = loc[p].queries[loc[p].i]
            /\ (pc[p] = "route_research" /\ glog[p][1].ok) =>
                  /\ Len(SearchCalls(glog[p])) = Len(loc[p].queries)
                  /\ Len(glog[p]) = Len(loc[p].queries) + 2
                  /\ glog[p][1].kind = "generate"
                  /\ Last(glog[p]).kind = "report"
                  /\ loc[p].out[1].success =>
                        /\ loc[p].out[1].research_queries = loc[p].queries
                        /\ loc[p].out[1].metadata.num_queries = Len(loc[p].queries)

\* a basic research (three queries asked for) whose generation gave two equal
\* lines has returned its success result after two searches
C16_Witness ==
    \E p \in Procs :
        /\ pc[p] = "route_research"
        /\ loc[p].depth = "basic"
        /\ loc[p].out[1].success
        /\ loc[p].out[1].research_queries = <<"q1", "q1">>
        /\ Len(glog[p]) = 4
        /\ QueryCount(loc[p].depth) = 3


\* C18: POST /search/structured with a valid body, under a provider other
\* than "openai", is answered with status 400 and issues no gateway call.
C18_StructuredRefusedWith400 ==
    \A p \in Procs :
        (/\ pc[p] = "done"
         /\ loc[p].op = "structured"
         /\ ValidSearchRequest(loc[p].body)
         /\ AgentProvider # "openai") =>
            /\ response[p][1].status = 400
            /\ glog[p] = <<>>
            /\ inflight[p] = <<>>


\* the four agent methods, the states in which one is running, and the states
\* in which it has just returned to its route
Methods == {"search", "chat", "multi", "research"}
ReturnPoints == {"route_search", "route_chat", "route_multi", "route_research"}
InMethod(p) == loc[p].op \in Methods /\ pc[p] \notin {"idle", "done"} \cup ReturnPoints
Returned(p) == loc[p].op \in Methods /\ pc[p] \in ReturnPoints
ResultOf(p) == IF loc[p].op = "search" THEN loc[p].s_result ELSE loc[p].out

\* the gateway calls a request has issued so far, and its number of queries
Issued(p) == glog[p] \o inflight[p]
CallsOfKind(p, kind) == Len(SelectSeq(Issued(p), LAMBDA c : c.kind = kind))
NumQueries(p) == IF loc[p].op = "search" THEN 1 ELSE Len(loc[p].queries)

\* one result, success or failure and not a mix of the two
Discriminated(result) ==
    /\ Len(result) = 1
    /\ result[1].success \in BOOLEAN
    /\ result[1].success <=> ~Has(result[1], "error")

C17_Bounded ==
    \A p \in Procs :
        loc[p].op \in Methods =>
            /\ Len(Issued(p)) <= NumQueries(p) + 2
            /\ CallsOfKind(p, "search") <= NumQueries(p)
            /\ \A kind \in {"chat", "generate", "synthesis", "report"} :
                  CallsOfKind(p, kind) <= 1
            /\ Returned(p) => Discriminated(ResultOf(p))
            /\ (pc[p] = loc[p].s_ret /\ loc[p].s_result # <<>>) =>
                  Discriminated(loc[p].s_result)

\* C17: when every gateway call comes back, every search, chat,
\* multi_query_search and research_topic call that has begun returns, with
\* exactly one result that is a success or a failure; it issues at most
\* (number of queries + 2) gateway calls, and none of its steps twice.
C17_EveryOperationReturnsOnce ==
    /\ []C17_Bounded
    /\ \A p \in Procs : InMethod(p) ~> Returned(p)
    /\ \A p \in Procs : (pc[p] = "search_enter") ~> (pc[p] = loc[p].s_ret)

\* a research over three queries has returned after five gateway calls, two
\* of its searches having raised
C17_Witness ==
    \E p \in Procs :
        /\ Returned(p)
        /\ loc[p].op = "research"
        /\ Len(loc[p].queries) = 3
        /\ Len(glog[p]) = NumQueries(p) + 2
        /\ OkCount(glog[p]) = 1
        /\ Discriminated(loc[p].out)

====
